---- MODULE Spec2Model ----
(***************************************************************************)
(* Model of the canonical CBOR writer of oasis-cbor                        *)
(* (src/value/src/writer.rs): write, write_nested, Writer::encode_cbor and *)
(* Writer::start_item.                                                     *)
(*                                                                         *)
(* Representation.                                                         *)
(*   u64 / i64   four 16-bit limbs, most significant first (TLC integers   *)
(*               are 32 bits wide); an i64 is its two's complement image.  *)
(*   u8          0..255;  i8  -128..127.                                   *)
(*   Option<i8>  << >> for None, <<d>> for Some(d).                        *)
(*   Vec<u8>     a sequence of bytes.                                      *)
(*   Value       a tuple whose first component is the variant name:        *)
(*               <<"Unsigned", u64>>, <<"Negative", i64>>,                 *)
(*               <<"ByteString", bytes>>, <<"TextString", utf8 bytes>>,    *)
(*               <<"Array", seq of Value>>,                                *)
(*               <<"Map", seq of <<key, value>>>>,                         *)
(*               <<"Tag", u64, Value>>, <<"Simple", code>>.                *)
(*   A String is stored as its UTF-8 bytes, so len() and into_bytes() are  *)
(*   the length and the content of that byte sequence.                     *)
(***************************************************************************)
EXTENDS Integers, Sequences, FiniteSets, TLC

VARIABLES
    pc,           \* "ready": arguments chosen, call pending; "done": call returned
    op,           \* entry point of the last call: "none", "write", "write_nested", "start_item"
    value,        \* the Value argument
    max_nest,     \* the Option<i8> argument of write_nested
    type_label,   \* start_item's type_label argument
    size,         \* start_item's size argument
    buf,          \* the caller's output vector (encoded_cbor)
    before,       \* content of buf when the last call was entered
    result,       \* "none", "Ok", "TooMuchNesting", "DuplicateMapKey"
    overflow,     \* some integer operation of the last call left its type's range
    descents,     \* the <<counter of the caller, counter handed to the child>> pairs of the last call
    ncalls,       \* calls made on this buffer
    stack,        \* the pending frames of encode_cbor while a call runs step by step
    scratch,      \* the vectors of the map keys being encoded, innermost last
    levels,       \* containers the caller has wrapped around the value
    kind          \* the container the caller wraps with

vars == <<pc, op, value, max_nest, type_label, size, buf, before, result,
          overflow, descents, ncalls, stack, scratch, levels, kind>>

(***************************************************************************)
(* Machine integers                                                        *)
(***************************************************************************)
LimbBase == 256 * 256

\* a small natural number as u64 (usize as u64, u8 as u64, literals)
U64(n) == <<0, 0, n \div LimbBase, n % LimbBase>>

\* a <= b on u64
LeU64(a, b) ==
    \/ a = b
    \/ \E i \in 1..4 : a[i] < b[i] /\ \A j \in 1..(i - 1) : a[j] = b[j]

\* (x >> (i * 8)) as u8
ShrByte(x, i) == (x[4 - (i \div 2)] \div (IF i % 2 = 1 THEN 256 ELSE 1)) % 256

\* x as u8
AsU8(x) == x[4] % 256

\* a | b on u8
RECURSIVE BitOrN(_, _, _)
BitOrN(a, b, n) ==
    IF n = 0 THEN 0
    ELSE (IF a % 2 = 1 \/ b % 2 = 1 THEN 1 ELSE 0)
         + 2 * BitOrN(a \div 2, b \div 2, n - 1)

BitOr(a, b) == BitOrN(a, b, 8)

\* a << s on u8 (bits shifted out are lost)
Shl8(a, s) == (a * (2 ^ s)) % 256

I64_MIN == <<32768, 0, 0, 0>>
I64_MAX_BITS == <<32767, 65535, 65535, 65535>>

\* bits of x + 1 (wrapping)
RECURSIVE IncLimbs(_, _)
IncLimbs(x, i) ==
    IF i = 0 THEN x
    ELSE IF x[i] = LimbBase - 1 THEN IncLimbs([x EXCEPT ![i] = 0], i - 1)
    ELSE [x EXCEPT ![i] = x[i] + 1]

\* i64 + 1: wrapped bits, and whether the sum left the i64 range
AddOneI64(x) == [bits |-> IncLimbs(x, 4), ovf |-> (x = I64_MAX_BITS)]

\* -x on i64: wrapped bits, and whether the negation left the i64 range
NegI64(x) == [bits |-> IncLimbs([i \in 1..4 |-> (LimbBase - 1) - x[i]], 4),
              ovf |-> (x = I64_MIN)]

I8_MAX == 127
I8_MIN == -I8_MAX - 1

(***************************************************************************)
(* values.rs (not part of the sources at hand): Constants and type_label   *)
(***************************************************************************)
MAJOR_TYPE_BIT_SHIFT == 5
ADDITIONAL_INFORMATION_1_BYTE == 24
ADDITIONAL_INFORMATION_2_BYTES == 25
ADDITIONAL_INFORMATION_4_BYTES == 26
ADDITIONAL_INFORMATION_8_BYTES == 27

TypeLabel(v) ==
    CASE v[1] = "Unsigned"   -> 0
      [] v[1] = "Negative"   -> 1
      [] v[1] = "ByteString" -> 2
      [] v[1] = "TextString" -> 3
      [] v[1] = "Array"      -> 4
      [] v[1] = "Map"        -> 5
      [] v[1] = "Tag"        -> 6
      [] v[1] = "Simple"     -> 7

(***************************************************************************)
(* Writer::start_item                                                      *)
(***************************************************************************)
\* HeaderClass with the arm 24..=0xFF widened to 24..=0x100
HeaderClass_WideByte(sz) ==
    IF LeU64(sz, U64(23)) THEN <<AsU8(sz), 0>>
    ELSE IF LeU64(sz, U64(256)) THEN <<ADDITIONAL_INFORMATION_1_BYTE, 1>>
    ELSE IF LeU64(sz, U64(65535)) THEN <<ADDITIONAL_INFORMATION_2_BYTES, 2>>
    ELSE IF LeU64(sz, <<0, 0, 65535, 65535>>) THEN <<ADDITIONAL_INFORMATION_4_BYTES, 4>>
    ELSE <<ADDITIONAL_INFORMATION_8_BYTES, 8>>

\* the match on size: <<first_byte, shift>>
HeaderClass(sz) ==
    IF LeU64(sz, U64(23)) THEN <<AsU8(sz), 0>>
    ELSE IF LeU64(sz, U64(255)) THEN <<ADDITIONAL_INFORMATION_1_BYTE, 1>>
    ELSE IF LeU64(sz, U64(65535)) THEN <<ADDITIONAL_INFORMATION_2_BYTES, 2>>
    ELSE IF LeU64(sz, <<0, 0, 65535, 65535>>) THEN <<ADDITIONAL_INFORMATION_4_BYTES, 4>>
    ELSE <<ADDITIONAL_INFORMATION_8_BYTES, 8>>

\* for i in (0..shift).rev() { push((size >> (i * 8)) as u8) }
SizeBytes(sz, shift) == [k \in 1..shift |-> ShrByte(sz, shift - k)]

start_item(b, label, sz) ==
    LET c == HeaderClass(sz)
        first_byte == BitOr(c[1], Shl8(label, MAJOR_TYPE_BIT_SHIFT))
    IN  Append(b, first_byte) \o SizeBytes(sz, c[2])

(***************************************************************************)
(* Writer::encode_cbor                                                     *)
(*                                                                         *)
(* Every operator below returns the outcome of a piece of the recursion:   *)
(*   res       "Ok", "TooMuchNesting" or "DuplicateMapKey"                 *)
(*   buf       the vector written to, as that piece leaves it              *)
(*   ovf       an i8 or i64 operation of that piece overflowed (a debug    *)
(*             build panics there; the wrapped value is what a release     *)
(*             build continues with)                                       *)
(*   descents  the <<remaining_depth, remaining_depth.map(|d| d - 1)>>     *)
(*             pairs of the recursive calls made                           *)
(***************************************************************************)
Outcome(r, b) == [res |-> r, buf |-> b, ovf |-> FALSE, descents |-> {}]

\* what an earlier piece overflowed or descended stays so after a later piece
After(first, rest) ==
    [rest EXCEPT !.ovf = first.ovf \/ rest.ovf,
                 !.descents = first.descents \cup rest.descents]

\* TooDeep with d <= 0 for d < 0
TooDeep_AtZero(remaining_depth) ==
    IF remaining_depth = << >> THEN FALSE ELSE remaining_depth[1] <= 0

\* TooDeep with the check left out
TooDeep_Unchecked(remaining_depth) == FALSE

\* remaining_depth.map_or(false, |d| d < 0)
TooDeep(remaining_depth) ==
    IF remaining_depth = << >> THEN FALSE ELSE remaining_depth[1] < 0

\* remaining_depth.map(|d| d - 1) on Option<i8>
Descend(remaining_depth) ==
    IF remaining_depth = << >> THEN [depth |-> << >>, ovf |-> FALSE]
    ELSE IF remaining_depth[1] = I8_MIN THEN [depth |-> <<I8_MAX>>, ovf |-> TRUE]
    ELSE [depth |-> <<remaining_depth[1] - 1>>, ovf |-> FALSE]

\* NegMagnitude without the + 1: -negative as u64
NegMagnitude_NoIncrement(negative) == NegI64(negative)

\* -(negative + 1) as u64
NegMagnitude(negative) ==
    LET sum == AddOneI64(negative)
        neg == NegI64(sum.bits)
    IN  [bits |-> neg.bits, ovf |-> sum.ovf \/ neg.ovf]

\* CmpBytes with the shorter vector first, equal lengths bytewise
RECURSIVE CmpBytes_LengthFirst(_, _)
CmpBytes_LengthFirst(a, b) ==
    IF Len(a) < Len(b) THEN -1
    ELSE IF Len(a) > Len(b) THEN 1
    ELSE IF a = << >> THEN 0
    ELSE IF Head(a) < Head(b) THEN -1
    ELSE IF Head(a) > Head(b) THEN 1
    ELSE CmpBytes_LengthFirst(Tail(a), Tail(b))

\* Vec<u8>::cmp: -1 (Less), 0 (Equal), 1 (Greater)
RECURSIVE CmpBytes(_, _)
CmpBytes(a, b) ==
    IF a = << >> /\ b = << >> THEN 0
    ELSE IF a = << >> THEN -1
    ELSE IF b = << >> THEN 1
    ELSE IF Head(a) < Head(b) THEN -1
    ELSE IF Head(a) > Head(b) THEN 1
    ELSE CmpBytes(Tail(a), Tail(b))

\* one element put into an already sorted vector, after its equals
RECURSIVE InsertSorted(_, _)
InsertSorted(sorted, e) ==
    IF sorted = << >> THEN <<e>>
    ELSE IF CmpBytes(e[1], Head(sorted)[1]) = -1 THEN <<e>> \o sorted
    ELSE <<Head(sorted)>> \o InsertSorted(Tail(sorted), e)

RECURSIVE SortFrom(_, _)
SortFrom(sorted, rest) ==
    IF rest = << >> THEN sorted
    ELSE SortFrom(InsertSorted(sorted, Head(rest)), Tail(rest))

\* sort_by left out: the pairs stay in input order
sort_by_InputOrder(map) == map

\* map.sort_by(|a, b| a.0.cmp(&b.0)): the stable sort by encoded key
sort_by(map) == SortFrom(<< >>, map)

\* dedup_by that removes nothing
dedup_by_Keep(map) == map

\* map.dedup_by(|a, b| a.0.eq(&b.0)): of consecutive equal keys the first stays
RECURSIVE dedup_by(_)
dedup_by(map) ==
    IF Len(map) <= 1 THEN map
    ELSE IF map[1][1] = map[2][1] THEN dedup_by(<<map[1]>> \o SubSeq(map, 3, Len(map)))
    ELSE <<map[1]>> \o dedup_by(Tail(map))

RECURSIVE encode_cbor(_, _, _)
RECURSIVE encode_elements(_, _, _)
RECURSIVE encode_keys(_, _)
RECURSIVE encode_pairs(_, _, _)

\* self.encode_cbor(child, remaining_depth.map(|d| d - 1))
encode_child(b, child, remaining_depth) ==
    LET d == Descend(remaining_depth)
        r == encode_cbor(b, child, d.depth)
    IN  [r EXCEPT !.ovf = r.ovf \/ d.ovf,
                  !.descents = r.descents \cup {<<remaining_depth, d.depth>>}]

\* for el in array { self.encode_cbor(el, ...)?; }
encode_elements(b, array, remaining_depth) ==
    IF array = << >> THEN Outcome("Ok", b)
    ELSE LET r == encode_child(b, Head(array), remaining_depth)
         IN  IF r.res # "Ok" THEN r
             ELSE After(r, encode_elements(r.buf, Tail(array), remaining_depth))

\* map.into_iter().map(|(k, v)| ...).collect::<Result<_, _>>(): each key is
\* encoded into a vector of its own, in input order, up to the first error;
\* buf holds the collected <<encoded_key, v>> pairs
encode_keys(map, remaining_depth) ==
    IF map = << >> THEN Outcome("Ok", << >>)
    ELSE LET r == encode_child(<< >>, Head(map)[1], remaining_depth)
         IN  IF r.res # "Ok" THEN [r EXCEPT !.buf = << >>]
             ELSE LET rest == encode_keys(Tail(map), remaining_depth)
                  IN  After(r, IF rest.res # "Ok" THEN rest
                               ELSE [rest EXCEPT !.buf = <<<<r.buf, Head(map)[2]>>>> \o rest.buf])

\* for (encoded_key, v) in map { extend(encoded_key); self.encode_cbor(v, ...)?; }
encode_pairs(b, map, remaining_depth) ==
    IF map = << >> THEN Outcome("Ok", b)
    ELSE LET r == encode_child(b \o Head(map)[1], Head(map)[2], remaining_depth)
         IN  IF r.res # "Ok" THEN r
             ELSE After(r, encode_pairs(r.buf, Tail(map), remaining_depth))

\* encode_map with the header written before the check for duplicates
encode_map_HeaderFirst(b, label, map, remaining_depth) ==
    LET keyed == encode_keys(map, remaining_depth)
    IN  IF keyed.res # "Ok" THEN [keyed EXCEPT !.buf = b]
        ELSE LET sorted == sort_by(keyed.buf)
                 map_len == Len(sorted)
                 deduped == dedup_by(sorted)
                 started == start_item(b, label, U64(map_len))
             IN  IF map_len # Len(deduped)
                 THEN After(keyed, Outcome("DuplicateMapKey", started))
                 ELSE After(keyed, encode_pairs(started, deduped, remaining_depth))

\* encode_map with the duplicates looked for before the sort, where only
\* equal keys given next to each other are found
encode_map_DedupUnsorted(b, label, map, remaining_depth) ==
    LET keyed == encode_keys(map, remaining_depth)
    IN  IF keyed.res # "Ok" THEN [keyed EXCEPT !.buf = b]
        ELSE LET map_len == Len(keyed.buf)
                 deduped == dedup_by(keyed.buf)
                 sorted == sort_by(keyed.buf)
             IN  IF map_len # Len(deduped)
                 THEN After(keyed, Outcome("DuplicateMapKey", b))
                 ELSE After(keyed, encode_pairs(start_item(b, label, U64(map_len)),
                                                sorted, remaining_depth))

\* the Value::Map arm
encode_map(b, label, map, remaining_depth) ==
    LET keyed == encode_keys(map, remaining_depth)
    IN  IF keyed.res # "Ok" THEN [keyed EXCEPT !.buf = b]
        ELSE LET sorted == sort_by(keyed.buf)
                 map_len == Len(sorted)
                 deduped == dedup_by(sorted)
             IN  IF map_len # Len(deduped)
                 THEN After(keyed, Outcome("DuplicateMapKey", b))
                 ELSE After(keyed, encode_pairs(start_item(b, label, U64(map_len)),
                                                deduped, remaining_depth))

encode_cbor(b, v, remaining_depth) ==
    IF TooDeep(remaining_depth) THEN Outcome("TooMuchNesting", b)
    ELSE LET label == TypeLabel(v)
         IN  CASE v[1] = "Unsigned" -> Outcome("Ok", start_item(b, label, v[2]))
               [] v[1] = "Negative" ->
                    LET m == NegMagnitude(v[2])
                    IN  [Outcome("Ok", start_item(b, label, m.bits)) EXCEPT !.ovf = m.ovf]
               [] v[1] = "ByteString" ->
                    Outcome("Ok", start_item(b, label, U64(Len(v[2]))) \o v[2])
               [] v[1] = "TextString" ->
                    Outcome("Ok", start_item(b, label, U64(Len(v[2]))) \o v[2])
               [] v[1] = "Array" ->
                    encode_elements(start_item(b, label, U64(Len(v[2]))), v[2],
                                    remaining_depth)
               [] v[1] = "Map" -> encode_map(b, label, v[2], remaining_depth)
               [] v[1] = "Tag" ->
                    encode_child(start_item(b, label, v[2]), v[3], remaining_depth)
               [] v[1] = "Simple" -> Outcome("Ok", start_item(b, label, U64(v[2])))

\* write_nested writing into a vector of its own that replaces the caller's
write_nested_Fresh(v, encoded_cbor, nest) == encode_cbor(<< >>, v, nest)

\* write_nested: Writer::new(encoded_cbor).encode_cbor(value, max_nest)
write_nested(v, encoded_cbor, nest) == encode_cbor(encoded_cbor, v, nest)

\* a limit one short of i8::MAX
write_limit_OneShort == <<I8_MAX - 1>>

\* Some(i8::MAX), the limit write passes on
write_limit == <<I8_MAX>>

\* write: write_nested(value, encoded_cbor, Some(i8::MAX))
write(v, encoded_cbor) == write_nested(v, encoded_cbor, write_limit)

(***************************************************************************)
(* Arguments the callers hand in                                           *)
(***************************************************************************)
MaxDepth == 3    \* nesting of the generated trees
MaxPairs == 3    \* pairs of the generated maps
MaxChain == 129  \* nesting of the generated chains
MaxCalls == 2    \* calls made on one buffer
MaxBuf == 1      \* a buffer longer than this is not reused

Uns(n) == <<"Unsigned", U64(n)>>
\* the negative integer -n, 1 <= n < 2^31
NegInt(n) == <<"Negative", [i \in 1..4 |-> (LimbBase - 1) - U64(n - 1)[i]]>>
Text(bytes) == <<"TextString", bytes>>
Bytes(bytes) == <<"ByteString", bytes>>
Arr(elements) == <<"Array", elements>>
MapOf(pairs) == <<"Map", pairs>>
Tagged(tag, inner) == <<"Tag", U64(tag), inner>>
Simple(code) == <<"Simple", code>>

U0 == Uns(0)
T0 == Text(<<48>>)                       \* "0"
FalseValue == Simple(20)
Deep2 == Arr(<<Arr(<<U0>>)>>)            \* [[0]]
DupMap == MapOf(<<<<U0, U0>>, <<U0, T0>>>>)   \* {0: 0, 0: "0"}

Some(S) == {<<d>> : d \in S}
None == << >>

\* trees nested up to n levels
Flat == {U0, T0, Arr(<< >>), MapOf(<< >>)}
RECURSIVE Trees(_)
Trees(n) ==
    IF n = 0 THEN Flat
    ELSE LET T == Trees(n - 1)
         IN  Flat \cup {Arr(<<t>>) : t \in T} \cup {Tagged(6, t) : t \in T}
                  \cup {MapOf(<<<<t, U0>>>>) : t \in T}
                  \cup {MapOf(<<<<U0, t>>>>) : t \in T}
                  \cup {MapOf(<<<<U0, t>>, <<U0, U0>>>>) : t \in T}

TreeValues == Trees(MaxDepth)
TreeLimits == {None} \cup Some(-1..(MaxDepth + 1)) \cup Some({I8_MIN, I8_MAX})

\* maps of up to MaxPairs pairs; at most one value is not the integer 0
MapKeys == {U0, T0, FalseValue, Deep2, DupMap}
MapSpecials == {Deep2, DupMap}
KeySeqs == UNION {[1..n -> MapKeys] : n \in 0..MaxPairs}
MapsOver(ks) ==
    {MapOf([i \in 1..Len(ks) |-> <<ks[i], U0>>])}
    \cup {MapOf([i \in 1..Len(ks) |-> <<ks[i], IF i = j THEN s ELSE U0>>]) :
            j \in 1..Len(ks), s \in MapSpecials}
MapValues == UNION {MapsOver(ks) : ks \in KeySeqs}
MapLimits == Some(1..3)

\* the containers a caller nests a value in, level by level
ChainKinds == {"array", "tag", "key", "value"}
WrapIn(k, v) ==
    CASE k = "array" -> Arr(<<v>>)
      [] k = "tag"   -> Tagged(6, v)
      [] k = "key"   -> MapOf(<<<<v, U0>>>>)
      [] k = "value" -> MapOf(<<<<U0, v>>>>)
ChainSeeds == {U0, Arr(<< >>)}
ChainLimits == {None, <<I8_MAX>>}

\* 64-bit patterns around the boundaries of the header classes
HighLimbs == {0, 1, 255, 256, 32767, 65535}
LowLimbs == {0, 1, 23, 24, 255, 256, 65535}
Magnitudes == {<<a, b, c, d>> : a \in HighLimbs, b \in {0, 1, 65535},
                                c \in {0, 1, 65535}, d \in LowLimbs}
\* the i64 values below zero among them, and -1000
Negatives == {<<"Negative", m>> : m \in {x \in Magnitudes : x[1] >= 32768}}
               \cup {NegInt(1000), NegInt(1), NegInt(24), NegInt(25)}
               \cup {<<"Negative", I64_MIN>>}
               \cup {<<"Negative", [i \in 1..4 |-> (LimbBase - 1) - m[i]]>> :
                       m \in {x \in Magnitudes : x[1] < 32768 /\ x[2] = 0}}
IntLimits == {None, <<0>>}
TypeLabels == 0..7

\* calls made one after another on one buffer
SeqValues == Trees(1) \cup {Arr(<<U0, Deep2>>), MapOf(<<<<U0, U0>>, <<T0, Deep2>>>>),
                            DupMap, Arr(<<U0, DupMap>>)}
SeqLimits == {None} \cup Some(-1..2)
PriorBufs == {<< >>, <<255>>}

(***************************************************************************)
(* The callers: one call at a time, on a buffer they own                   *)
(***************************************************************************)
InitOn(values, limits, bufs) ==
    /\ pc = "ready"
    /\ op = "none"
    /\ value \in values
    /\ max_nest \in limits
    /\ type_label = 0
    /\ size = U64(0)
    /\ buf \in bufs
    /\ before = buf
    /\ result = "none"
    /\ overflow = FALSE
    /\ descents = {}
    /\ ncalls = 0
    /\ stack = << >>
    /\ scratch = << >>
    /\ levels = 0
    /\ kind = "none"

Returned(name, r) ==
    /\ pc' = "done"
    /\ op' = name
    /\ before' = buf
    /\ buf' = r.buf
    /\ result' = r.res
    /\ overflow' = r.ovf
    /\ descents' = r.descents
    /\ ncalls' = ncalls + 1
    /\ UNCHANGED <<value, max_nest, type_label, size, stack, scratch, levels, kind>>

\* write(value, &mut buf)
Write ==
    /\ pc = "ready"
    /\ Returned("write", write(value, buf))

\* write_nested(value, &mut buf, max_nest)
WriteNested ==
    /\ pc = "ready"
    /\ Returned("write_nested", write_nested(value, buf, max_nest))

\* the caller picks the arguments of its next call on the same buffer
Again ==
    /\ pc = "done"
    /\ ncalls < MaxCalls
    /\ Len(buf) <= MaxBuf
    /\ pc' = "ready"
    /\ value' \in SeqValues
    /\ max_nest' \in SeqLimits
    /\ op' = "none"
    /\ before' = buf
    /\ result' = "none"
    /\ overflow' = FALSE
    /\ descents' = {}
    /\ UNCHANGED <<type_label, size, buf, ncalls, stack, scratch, levels, kind>>

\* writer.start_item(type_label, size)
StartItem ==
    /\ pc = "ready"
    /\ pc' = "done"
    /\ op' = "start_item"
    /\ before' = buf
    /\ buf' = start_item(buf, type_label, size)
    /\ ncalls' = ncalls + 1
    /\ UNCHANGED <<value, max_nest, type_label, size, result, overflow, descents,
                   stack, scratch, levels, kind>>

Init == InitOn(SeqValues, SeqLimits, PriorBufs)
Next == Write \/ WriteNested \/ Again
Spec == Init /\ [][Next]_vars

NextCall == Write \/ WriteNested

InitTree == InitOn(TreeValues, TreeLimits, {<< >>})
SpecTree == InitTree /\ [][NextCall]_vars

InitMap == InitOn(MapValues, MapLimits, {<< >>})
SpecMap == InitMap /\ [][NextCall]_vars

\* a caller of write_nested alone, with a limit of its own on every map
SpecNested == InitMap /\ [][WriteNested]_vars

InitInt == InitOn(Negatives, IntLimits, PriorBufs)
SpecInt == InitInt /\ [][NextCall]_vars

InitItem ==
    /\ pc = "ready"
    /\ op = "none"
    /\ type_label \in TypeLabels
    /\ size \in Magnitudes
    /\ value = <<"Unsigned", size>>
    /\ max_nest = None
    /\ buf \in PriorBufs
    /\ before = buf
    /\ result = "none"
    /\ overflow = FALSE
    /\ descents = {}
    /\ ncalls = 0
    /\ stack = << >>
    /\ scratch = << >>
    /\ levels = 0
    /\ kind = "none"
NextItem == StartItem \/ Write
SpecItem == InitItem /\ [][NextItem]_vars

(***************************************************************************)
(* encode_cbor one recursive call at a time: the pending calls and loops   *)
(* are frames on a stack, innermost last, so that values nested as deep as *)
(* an i8 counts can be followed.  A frame is                               *)
(*   "call"      encode_cbor(v, rd) is about to run                        *)
(*   "elements"  the loop over the rest of an array                        *)
(*   "keys"      the key-encoding closure is about to take the next pair   *)
(*   "key"       the key of a pair is being encoded; v is the pair's value *)
(*   "pairs"     the loop over the rest of the sorted pairs                *)
(* rd is the remaining_depth of the call the frame belongs to.             *)
(***************************************************************************)
Frame(k, label, v, rest, done, rd) ==
    [k |-> k, label |-> label, v |-> v, rest |-> rest, done |-> done, rd |-> rd]
CallFrame(v, rd) == Frame("call", 0, v, << >>, << >>, rd)

Top == stack[Len(stack)]
Below == SubSeq(stack, 1, Len(stack) - 1)

\* the vector self.encoded_cbor of the innermost Writer
Cur == IF scratch = << >> THEN buf ELSE scratch[Len(scratch)]
SetCur(b) ==
    IF scratch = << >> THEN buf' = b /\ scratch' = scratch
    ELSE buf' = buf /\ scratch' = [scratch EXCEPT ![Len(scratch)] = b]

\* an Err leaves through every pending `?`
Abort(e) ==
    /\ pc' = "done"
    /\ result' = e
    /\ stack' = << >>
    /\ scratch' = << >>
    /\ buf' = buf

\* self.encode_cbor(child, remaining_depth.map(|d| d - 1)) on top of frames
PushChild(frames, child, rd) ==
    LET d == Descend(rd)
    IN  /\ stack' = Append(frames, CallFrame(child, d.depth))
        /\ overflow' = (overflow \/ d.ovf)
        /\ descents' = descents \cup {<<rd, d.depth>>}

Running(k) == pc = "running" /\ stack # << >> /\ Top.k = k

Untouched == UNCHANGED <<op, value, max_nest, type_label, size, before, ncalls, levels, kind>>

\* encode_cbor is entered: the depth check, then the arm of the variant
Enter ==
    /\ Running("call")
    /\ LET f == Top
           label == TypeLabel(f.v)
       IN  IF TooDeep(f.rd)
           THEN Abort("TooMuchNesting") /\ UNCHANGED <<overflow, descents>>
           ELSE CASE f.v[1] = "Array" ->
                       /\ SetCur(start_item(Cur, label, U64(Len(f.v[2]))))
                       /\ stack' = Append(Below, Frame("elements", label, U0, f.v[2], << >>, f.rd))
                       /\ UNCHANGED <<pc, result, overflow, descents>>
                  [] f.v[1] = "Tag" ->
                       /\ SetCur(start_item(Cur, label, f.v[2]))
                       /\ PushChild(Below, f.v[3], f.rd)
                       /\ UNCHANGED <<pc, result>>
                  [] f.v[1] = "Map" ->
                       /\ stack' = Append(Below, Frame("keys", label, U0, f.v[2], << >>, f.rd))
                       /\ UNCHANGED <<pc, result, overflow, descents, buf, scratch>>
                  [] OTHER ->
                       LET r == encode_cbor(Cur, f.v, f.rd)
                       IN  /\ SetCur(r.buf)
                           /\ overflow' = (overflow \/ r.ovf)
                           /\ stack' = Below
                           /\ UNCHANGED <<pc, result, descents>>
    /\ Untouched

\* for el in array
NextElement ==
    /\ Running("elements")
    /\ LET f == Top
       IN  IF f.rest = << >>
           THEN stack' = Below /\ UNCHANGED <<overflow, descents>>
           ELSE PushChild(Append(Below, [f EXCEPT !.rest = Tail(f.rest)]), Head(f.rest), f.rd)
    /\ UNCHANGED <<pc, result, buf, scratch>>
    /\ Untouched

\* the closure of map.into_iter().map(..) takes the next pair and encodes its
\* key into a new vector; after the last pair: sort_by, dedup_by, the check
\* for duplicates and the header
NextKey ==
    /\ Running("keys")
    /\ LET f == Top
       IN  IF f.rest # << >>
           THEN /\ scratch' = Append(scratch, << >>)
                /\ PushChild(Append(Below, [f EXCEPT !.k = "key", !.v = Head(f.rest)[2],
                                                     !.rest = Tail(f.rest)]),
                             Head(f.rest)[1], f.rd)
                /\ UNCHANGED <<pc, result, buf>>
           ELSE LET sorted == sort_by(f.done)
                    map_len == Len(sorted)
                    deduped == dedup_by(sorted)
                IN  IF map_len # Len(deduped)
                    THEN Abort("DuplicateMapKey") /\ UNCHANGED <<overflow, descents>>
                    ELSE /\ SetCur(start_item(Cur, f.label, U64(map_len)))
                         /\ stack' = Append(Below, [f EXCEPT !.k = "pairs", !.rest = deduped,
                                                             !.done = << >>])
                         /\ UNCHANGED <<pc, result, overflow, descents>>
    /\ Untouched

\* Ok((encoded_key, v))
KeyEncoded ==
    /\ Running("key")
    /\ LET f == Top
       IN  /\ stack' = Append(Below, [f EXCEPT !.k = "keys", !.v = U0,
                                               !.done = Append(f.done, <<Cur, f.v>>)])
           /\ scratch' = SubSeq(scratch, 1, Len(scratch) - 1)
    /\ UNCHANGED <<pc, result, buf, overflow, descents>>
    /\ Untouched

\* for (encoded_key, v) in map
NextPair ==
    /\ Running("pairs")
    /\ LET f == Top
       IN  IF f.rest = << >>
           THEN stack' = Below /\ UNCHANGED <<overflow, descents, buf, scratch>>
           ELSE /\ SetCur(Cur \o Head(f.rest)[1])
                /\ PushChild(Append(Below, [f EXCEPT !.rest = Tail(f.rest)]),
                             Head(f.rest)[2], f.rd)
    /\ UNCHANGED <<pc, result>>
    /\ Untouched

\* the outermost encode_cbor returns Ok(())
Finish ==
    /\ pc = "running" /\ stack = << >>
    /\ pc' = "done"
    /\ result' = "Ok"
    /\ UNCHANGED <<buf, scratch, stack, overflow, descents>>
    /\ Untouched

\* the caller nests its value one level deeper
Wrap ==
    /\ pc = "build"
    /\ kind \in ChainKinds
    /\ levels < MaxChain
    /\ value' = WrapIn(kind, value)
    /\ levels' = levels + 1
    /\ UNCHANGED <<pc, op, max_nest, type_label, size, buf, before, result, overflow,
                   descents, ncalls, stack, scratch, kind>>

\* values are handed over when they are shallow or about as deep as allowed
HandedOver == levels <= 2 \/ levels >= MaxChain - 3

Begin(name, limit) ==
    /\ pc = "build"
    /\ HandedOver
    /\ pc' = "running"
    /\ op' = name
    /\ stack' = <<CallFrame(value, limit)>>
    /\ before' = buf
    /\ ncalls' = ncalls + 1
    /\ UNCHANGED <<value, max_nest, type_label, size, buf, result, overflow, descents,
                   scratch, levels, kind>>

\* write(value, &mut buf)
BeginWrite == Begin("write", write_limit)

\* write_nested(value, &mut buf, max_nest)
BeginWriteNested == Begin("write_nested", max_nest)

InitBuild(values, limits, kinds) ==
    /\ pc = "build"
    /\ op = "none"
    /\ value \in values
    /\ max_nest \in limits
    /\ type_label = 0
    /\ size = U64(0)
    /\ buf = << >>
    /\ before = buf
    /\ result = "none"
    /\ overflow = FALSE
    /\ descents = {}
    /\ ncalls = 0
    /\ stack = << >>
    /\ scratch = << >>
    /\ levels = 0
    /\ kind \in kinds

NextDeep ==
    \/ Wrap \/ BeginWrite \/ BeginWriteNested
    \/ Enter \/ NextElement \/ NextKey \/ KeyEncoded \/ NextPair \/ Finish

InitDeep == InitBuild(ChainSeeds, ChainLimits, ChainKinds)
SpecDeep == InitDeep /\ [][NextDeep]_vars

\* the same steps on the trees and maps of the other specifications
InitSteps == InitBuild(Trees(2) \cup SeqValues \cup {m \in MapValues : Len(m[2]) <= 2},
                       SeqLimits, {"none"})
SpecSteps == InitSteps /\ [][NextDeep]_vars

\* the limit the running or finished call was entered with
LimitUsed == IF op = "write" THEN write_limit ELSE max_nest

\* taken step by step, a call ends as encode_cbor says in one piece
StepsAgree ==
    (pc = "done" /\ op \in {"write", "write_nested"} /\ levels <= 3) =>
        LET r == encode_cbor(before, value, LimitUsed)
        IN  /\ result = r.res
            /\ buf = r.buf
            /\ overflow = r.ovf
            /\ descents = r.descents

(***************************************************************************)
(* Properties                                                              *)
(***************************************************************************)
\* the bytes the last call appended, when buf still starts with before
Appended == SubSeq(buf, Len(before) + 1, Len(buf))

\* the eight big-endian bytes of a 64-bit pattern
BE8(m) == [k \in 1..8 |-> (m[(k + 1) \div 2] \div (IF k % 2 = 1 THEN 256 ELSE 1)) % 256]

LeadingZeros(bytes) ==
    Cardinality({k \in 1..Len(bytes) : \A j \in 1..k : bytes[j] = 0})

\* the shortest CBOR header of a major type and a magnitude
ShortestHeader(major, m) ==
    LET b == BE8(m)
        z == LeadingZeros(b)
        following == IF z >= 7 THEN 1 ELSE IF z >= 6 THEN 2 ELSE IF z >= 4 THEN 4 ELSE 8
        info == CASE following = 1 -> 24 [] following = 2 -> 25
                  [] following = 4 -> 26 [] following = 8 -> 27
    IN  IF z >= 7 /\ b[8] <= 23 THEN <<major * 32 + b[8]>>
        ELSE <<major * 32 + info>> \o SubSeq(b, 9 - following, 8)

\* C4: start_item(major, m) appends, for every major type 0..7 and every
\* 64-bit magnitude m, the shortest header: the one byte (major << 5) | m
\* when m <= 23, else (major << 5) | 24, 25, 26 or 27 followed by m in 1, 2,
\* 4 or 8 big-endian bytes; writing Unsigned(n) with n <= 23 appends the one
\* byte n.
C4_ShortestHeader ==
    /\ (pc = "done" /\ op = "start_item") =>
            buf = before \o ShortestHeader(type_label, size)
    /\ (pc = "done" /\ op = "write") =>
            /\ result = "Ok"
            /\ buf = before \o ShortestHeader(0, size)
            /\ LeU64(size, U64(23)) => Appended = <<size[4]>>

\* major type 5 and the magnitude 256 appended to a buffer that held one byte
C4_Witness ==
    /\ pc = "done" /\ op = "start_item"
    /\ type_label = 5 /\ size = U64(256)
    /\ buf = <<255, 185, 1, 0>>

\* the 64-bit pattern of -(v + 1) for an i64 v < 0: 2^64 - 1 - (v + 2^64)
MinusVMinusOne(v) == [i \in 1..4 |-> (LimbBase - 1) - v[i]]

\* C5: a negative integer v (i64::MIN <= v <= -1) is written as the header
\* of major type 1 with magnitude -(v + 1); computing the magnitude does not
\* overflow, not for i64::MIN either (magnitude 2^63 - 1); -1000 is written
\* as 39 03 E7.
C5_NegativeMagnitude ==
    (pc = "done" /\ value[1] = "Negative" /\ value[2][1] >= 32768) =>
        /\ result = "Ok"
        /\ ~overflow
        /\ buf = before \o ShortestHeader(1, MinusVMinusOne(value[2]))
        /\ value = NegInt(1000) => Appended = <<57, 3, 231>>
        /\ value[2] = I64_MIN =>
              Appended = <<59, 127, 255, 255, 255, 255, 255, 255, 255>>

\* i64::MIN has been written
C5_Witness ==
    /\ pc = "done" /\ op = "write"
    /\ value = <<"Negative", I64_MIN>>
    /\ result = "Ok"
    /\ Len(buf) = Len(before) + 9

\* the encoding of a value on its own, without a depth limit
Alone(v) == encode_cbor(<< >>, v, None)

Max(S) == CHOOSE x \in S : \A y \in S : y <= x

Children(v) ==
    CASE v[1] = "Array" -> {v[2][i] : i \in 1..Len(v[2])}
      [] v[1] = "Map"   -> {v[2][i][1] : i \in 1..Len(v[2])}
                             \cup {v[2][i][2] : i \in 1..Len(v[2])}
      [] v[1] = "Tag"   -> {v[3]}
      [] OTHER          -> {}

\* nesting depth: 0 for a value without children, else 1 + the deepest child
RECURSIVE Depth(_)
Depth(v) ==
    IF Children(v) = {} THEN 0
    ELSE 1 + Max({Depth(c) : c \in Children(v)})

\* no map anywhere in v has two keys with the same encoding
RECURSIVE NoDuplicateKeys(_)
NoDuplicateKeys(v) ==
    /\ \A c \in Children(v) : NoDuplicateKeys(c)
    /\ v[1] = "Map" =>
          \A i, j \in 1..Len(v[2]) :
              i # j => Alone(v[2][i][1]).buf # Alone(v[2][j][1]).buf

\* C3: the nesting limit is an exact boundary: for a value v without
\* duplicate map keys, write_nested(v, Some(L)) succeeds if L >= depth(v) and
\* fails with TooMuchNesting if L < depth(v); write_nested(v, None) never
\* fails with TooMuchNesting.
C3_ExactBoundary ==
    (pc = "done" /\ op = "write_nested") =>
        /\ max_nest = None => result # "TooMuchNesting"
        /\ NoDuplicateKeys(value) =>
              IF max_nest = None THEN result = "Ok"
              ELSE IF max_nest[1] >= Depth(value) THEN result = "Ok"
              ELSE result = "TooMuchNesting"

\* a tree three levels deep was written with limit 3 and refused with limit 2
C3_Witness ==
    /\ pc = "done" /\ op = "write_nested"
    /\ value = Tagged(6, MapOf(<<<<Arr(<<U0>>), U0>>>>))
    /\ max_nest = <<2>>
    /\ result = "TooMuchNesting"
    /\ write_nested(value, << >>, <<3>>).res = "Ok"

\* C6: write supports at most 127 levels of nesting: it behaves as
\* write_nested with Some(127); a value nested 127 levels deep (without
\* duplicate map keys) is written, a value nested 128 or more levels deep
\* fails with TooMuchNesting.  The values here are nested `levels` deep and
\* have no duplicate keys.
C6_DefaultLimit ==
    /\ levels <= 3 => (Depth(value) = levels /\ NoDuplicateKeys(value))
    /\ (pc = "done" /\ (op = "write" \/ (op = "write_nested" /\ max_nest = <<127>>))) =>
          /\ levels <= 127 => result = "Ok"
          /\ levels >= 128 => result = "TooMuchNesting"
    /\ (pc = "done" /\ op = "write" /\ levels <= 3) =>
          LET r == write_nested(value, before, <<127>>)
          IN  result = r.res /\ buf = r.buf

\* write refused 128 nested tags
C6_Witness ==
    /\ pc = "done" /\ op = "write"
    /\ kind = "tag" /\ levels = 128
    /\ result = "TooMuchNesting"

\* write accepted 127 nested maps, each the key of the next
C6_Accepted ==
    /\ pc = "done" /\ op = "write"
    /\ kind = "key" /\ levels = 127
    /\ result = "Ok"

IsPrefix(a, b) == Len(a) <= Len(b) /\ SubSeq(b, 1, Len(a)) = a

\* C7: the buffer is append-only: whatever the value, the limit and the
\* prior content, and whether the call succeeded or failed, the content
\* before the call is a prefix of the content after it, also for a call that
\* follows other calls on the same buffer.
C7_AppendOnly == pc = "done" => IsPrefix(before, buf)

\* the second call on a buffer that was not empty failed after appending
C7_Witness ==
    /\ pc = "done" /\ ncalls = 2
    /\ before # << >>
    /\ result = "TooMuchNesting"
    /\ Len(buf) > Len(before)

\* C10: the counter goes down by exactly 1 on each descent into an array
\* element, a map key, a map value or a tag's inner value, and never in a call
\* that received a negative counter: every child receives at least -1, the
\* subtraction stays within i8, and a value without children makes no descent.
C10_DepthCounter ==
    (pc = "done" /\ op = "write_nested") =>
        /\ ~overflow
        /\ \A d \in descents :
              IF d[1] = None THEN d[2] = None
              ELSE /\ d[1][1] >= 0
                   /\ d[2] = <<d[1][1] - 1>>
                   /\ d[2][1] >= -1
                   /\ d[2][1] >= -128
        /\ Children(value) = {} => descents = {}
        /\ (result = "Ok" /\ max_nest # None) =>
              descents = {<<<<max_nest[1] - i + 1>>, <<max_nest[1] - i>>>> :
                              i \in 1..Depth(value)}

\* a call failed on a child that received -1
C10_Witness ==
    /\ pc = "done" /\ op = "write_nested"
    /\ max_nest = <<1>>
    /\ result = "TooMuchNesting"
    /\ <<<<0>>, <<-1>>>> \in descents

(***************************************************************************)
(* Properties of maps                                                      *)
(***************************************************************************)
IsMap == value[1] = "Map"
Pairs == value[2]
NPairs == Len(Pairs)

\* the last call made again on another value, from the same prior content
CallOn(v) == IF op = "write" THEN write(v, before) ELSE write_nested(v, before, max_nest)

Perms(n) == {p \in [1..n -> 1..n] : \A i, j \in 1..n : p[i] = p[j] => i = j}

\* the counter the keys and values of the map are encoded with
ChildLimit == Descend(LimitUsed).depth

\* key and value of pair i encoded on their own with that counter
KeyOf(i) == encode_cbor(<< >>, Pairs[i][1], ChildLimit)
ValueOf(i) == encode_cbor(<< >>, Pairs[i][2], ChildLimit)

\* every key has an encoding and no two keys have the same
DistinctKeys ==
    /\ \A i \in 1..NPairs : Alone(Pairs[i][1]).res = "Ok"
    /\ \A i, j \in 1..NPairs : i # j => Alone(Pairs[i][1]).buf # Alone(Pairs[j][1]).buf

\* C1: map encoding does not depend on the order of the pairs: for a map
\* whose keys have pairwise distinct encodings and any permutation of its
\* pairs, the same call on the permuted map succeeds if and only if it
\* succeeds on the original, and leaves the same bytes in the buffer.
C1_OrderIndependent ==
    (pc = "done" /\ IsMap /\ DistinctKeys) =>
        \A p \in Perms(NPairs) :
            LET r == CallOn(MapOf([i \in 1..NPairs |-> Pairs[p[i]]]))
            IN  /\ (r.res = "Ok") <=> (result = "Ok")
                /\ r.buf = buf

\* three pairs given in descending key order were written in ascending order
C1_Witness ==
    /\ pc = "done" /\ op = "write_nested"
    /\ value = MapOf(<<<<FalseValue, U0>>, <<T0, Deep2>>, <<U0, U0>>>>)
    /\ max_nest = <<3>>
    /\ result = "Ok"
    /\ buf = <<163, 0, 0, 97, 48, 129, 129, 0, 244, 0>>

\* two pairs have keys with the same encoded bytes
EqualKeys ==
    \E i, j \in 1..NPairs :
        /\ i # j
        /\ KeyOf(i).res = "Ok" /\ KeyOf(j).res = "Ok"
        /\ KeyOf(i).buf = KeyOf(j).buf

\* keys of different major types have different encodings
MajorTypesApart ==
    \A i, j \in 1..NPairs :
        (/\ TypeLabel(Pairs[i][1]) # TypeLabel(Pairs[j][1])
         /\ KeyOf(i).res = "Ok" /\ KeyOf(j).res = "Ok") => KeyOf(i).buf # KeyOf(j).buf

\* C2 as stated: when the limit is large enough that every key and value of
\* the map encodes without TooMuchNesting, the map fails with
\* DuplicateMapKey if and only if two of its pairs have keys with equal
\* encoded bytes; keys of different major types never collide.
C2_Original ==
    (/\ pc = "done" /\ IsMap /\ ~TooDeep(LimitUsed)
     /\ \A i \in 1..NPairs : KeyOf(i).res # "TooMuchNesting"
                             /\ ValueOf(i).res # "TooMuchNesting") =>
        /\ (result = "DuplicateMapKey") <=> EqualKeys
        /\ MajorTypesApart

\* C2, amended: when the limit is large enough and no key or value holds a
\* map with duplicate keys of its own, so that every key and value of the
\* map encodes successfully, the map fails with DuplicateMapKey if and only
\* if two of its pairs have keys with equal encoded bytes, wherever they sit,
\* and it succeeds otherwise; keys of different major types never collide.
C2_DuplicatesRejected ==
    (/\ pc = "done" /\ IsMap /\ ~TooDeep(LimitUsed)
     /\ \A i \in 1..NPairs : KeyOf(i).res = "Ok" /\ ValueOf(i).res = "Ok") =>
        /\ (result = "DuplicateMapKey") <=> EqualKeys
        /\ result \in {"Ok", "DuplicateMapKey"}
        /\ MajorTypesApart

\* the first and the last of three pairs have the key 0, a text key "0"
\* between them; the map was refused
C2_Witness ==
    /\ pc = "done" /\ op = "write"
    /\ value = MapOf(<<<<U0, U0>>, <<T0, U0>>, <<U0, Deep2>>>>)
    /\ result = "DuplicateMapKey"

\* a < b in the lexicographic order of byte sequences
LexLess(a, b) ==
    \E i \in 1..Len(b) :
        /\ \A j \in 1..(i - 1) : j <= Len(a) /\ a[j] = b[j]
        /\ (i = Len(a) + 1 \/ (i <= Len(a) /\ a[i] < b[i]))

RECURSIVE Concat(_)
Concat(seqs) == IF seqs = << >> THEN << >> ELSE Head(seqs) \o Concat(Tail(seqs))

\* C8: on success the bytes appended for a map are the header of major type
\* 5 with the number of input pairs, then every pair as its key's encoding
\* followed by the encoding of that key's own value, the keys in strictly
\* ascending lexicographic order; no pair is dropped, no value moved to
\* another key.
C8_MapLayout ==
    (pc = "done" /\ IsMap /\ result = "Ok") =>
        \E p \in Perms(NPairs) :
            /\ \A i \in 1..(NPairs - 1) :
                  LexLess(Alone(Pairs[p[i]][1]).buf, Alone(Pairs[p[i + 1]][1]).buf)
            /\ buf = before \o ShortestHeader(5, U64(NPairs))
                     \o Concat([i \in 1..NPairs |->
                                  Alone(Pairs[p[i]][1]).buf \o Alone(Pairs[p[i]][2]).buf])

\* the one-byte key f4 was written after the longer keys 61 30 and 81 81 00
C8_Witness ==
    /\ pc = "done" /\ op = "write"
    /\ value = MapOf(<<<<FalseValue, Deep2>>, <<Deep2, U0>>, <<T0, U0>>>>)
    /\ result = "Ok"
    /\ buf = <<163, 97, 48, 0, 129, 129, 0, 0, 244, 129, 129, 0>>

\* the keys that fail to encode, in input order
FailingKeys == {i \in 1..NPairs : KeyOf(i).res # "Ok"}

\* C9: within one map DuplicateMapKey is reported only after every key has
\* been encoded: if a key fails to encode, the map fails with that key's
\* error (the key the encoder stops at, the first in input order), also when
\* two other keys have the same encoding; if all keys encode and two are
\* the same, the map fails with DuplicateMapKey before any value is encoded,
\* whatever the values are, and no byte of the map is appended.
C9_KeysBeforeDuplicates ==
    (pc = "done" /\ IsMap /\ ~TooDeep(LimitUsed)) =>
        IF FailingKeys # {}
        THEN /\ result = KeyOf(CHOOSE i \in FailingKeys : \A j \in FailingKeys : i <= j).res
             /\ buf = before
        ELSE EqualKeys => (result = "DuplicateMapKey" /\ buf = before)

\* two equal keys and a value nested deeper than the limit allows
C9_Witness ==
    /\ pc = "done" /\ op = "write_nested"
    /\ value = MapOf(<<<<U0, Deep2>>, <<T0, U0>>, <<U0, U0>>>>)
    /\ max_nest = <<2>>
    /\ ValueOf(1).res = "TooMuchNesting"
    /\ result = "DuplicateMapKey"
    /\ buf = before

\* a key nested too deep, given after two equal keys
C9_KeyErrorWins ==
    /\ pc = "done" /\ op = "write_nested"
    /\ value = MapOf(<<<<U0, U0>>, <<U0, U0>>, <<Deep2, U0>>>>)
    /\ max_nest = <<2>>
    /\ result = "TooMuchNesting"
    /\ buf = before

\* the same call on the map with its pairs in the order p
Permuted(p) == CallOn(MapOf([i \in 1..NPairs |-> Pairs[p[i]]]))

\* the kinds of error the keys of the map fail with, each encoded on its own
KeyErrors == {KeyOf(i).res : i \in FailingKeys}

\* C11 as stated: for any map and any permutation of its pairs, write_nested
\* with the same depth limit returns the same result kind on both, also when
\* several keys fail to encode for different reasons.
C11_Original ==
    (pc = "done" /\ op = "write_nested" /\ IsMap) =>
        \A p \in Perms(NPairs) : Permuted(p).res = result

\* C11: for any map and any permutation of its pairs, write_nested with the
\* same depth limit succeeds on both or fails on both, and returns the same
\* result kind on both when the keys that fail to encode, if any, all fail
\* with the same kind of error; keys failing with different kinds make the
\* map fail with the error of the first of them in the input order.
C11_SameFailure ==
    (pc = "done" /\ op = "write_nested" /\ IsMap) =>
        /\ LET alike == TooDeep(LimitUsed) \/ Cardinality(KeyErrors) <= 1
           IN  \A p \in Perms(NPairs) :
                   LET r == Permuted(p).res
                   IN  IF alike THEN r = result
                       ELSE (r = "Ok") <=> (result = "Ok")
        /\ (~TooDeep(LimitUsed) /\ FailingKeys # {}) =>
               result = KeyOf(CHOOSE i \in FailingKeys : \A j \in FailingKeys : i <= j).res

\* two equal keys apart from each other and a value nested too deep: the
\* map fails with DuplicateMapKey, as it does in every other order
C11_Witness ==
    /\ pc = "done" /\ op = "write_nested"
    /\ value = MapOf(<<<<U0, U0>>, <<T0, Deep2>>, <<U0, U0>>>>)
    /\ max_nest = <<2>>
    /\ result = "DuplicateMapKey"
    /\ \A p \in Perms(NPairs) : Permuted(p).res = "DuplicateMapKey"

\* one key is a map with duplicate keys and another is nested too deep: the
\* map fails with DuplicateMapKey, and with TooMuchNesting in the other order
C11_OrderDecides ==
    /\ pc = "done" /\ op = "write_nested"
    /\ value = MapOf(<<<<DupMap, U0>>, <<Deep2, U0>>>>)
    /\ max_nest = <<2>>
    /\ result = "DuplicateMapKey"
    /\ write_nested(MapOf(<<<<Deep2, U0>>, <<DupMap, U0>>>>), before, max_nest).res
           = "TooMuchNesting"

====
